---------------------------- MODULE Spec2Model ----------------------------
(***************************************************************************)
(* State-machine model of the IAM service: the relational store            *)
(* (iam_user_account, iam_user_role, iam_auth_session, iam_auth_log,       *)
(* iam_mfa_method, iam_mfa_challenge), the clients' cookie jars (Flask     *)
(* session cookie + Flask-Login remember cookie) and one action per        *)
(* request handler of app/auth/routes_api.py and app/auth/routes_login.py. *)
(* Every handler is one atomic action.  Spec is the service as its         *)
(* handlers run it; SpecFault adds store failures, SpecRbac the role       *)
(* helpers, SpecAdmin the creation and deletion of accounts, SpecMfa the   *)
(* challenge contract.                                                     *)
(***************************************************************************)
EXTENDS Integers, Sequences, FiniteSets, TLC

(* ------------------------------ bounds -------------------------------- *)

\* Number of operations that may write the store (login attempts, API logouts,
\* status updates) in one behaviour, and the range of the clock.  Read-only
\* requests are not bounded.
MaxSteps == 3

(* --------------------------- input domains ---------------------------- *)

Clients == {"c1"}

UserIds == {1, 2}

\* user_id 0 stands for NULL / None (real ids are positive).
NoUser == 0

\* "" stands for a missing or empty field; "mallory" has no row.
Usernames == {"alice", "bob", "mallory", ""}

Passwords == {"Secr3t!", "hunter2", ""}

RoleIds == {1, 2}

\* Callers that run outside the request handlers (CLI commands, library calls).
Procs == {"p1", "p2"}

\* No call in progress and no result.
Idle == [op |-> "none", pc |-> "idle", arg |-> <<>>, result |-> "", at |-> 0]

\* request.get_json() of a login request: falsy (no object, or {}), or an
\* object whose username / password may be missing or empty ("").
NoBody == [username |-> "", password |-> "", empty |-> TRUE]

LoginBodies ==
    {NoBody} \cup
    {[username |-> u, password |-> p, empty |-> FALSE] : u \in Usernames, p \in Passwords}

VARIABLES
    user_account,   \* iam_user_account: user_id -> row
    user_role,      \* iam_user_role: set of <<user_id, role_id>>
    auth_session,   \* iam_auth_session: sequence of rows
    auth_log,       \* iam_auth_log: sequence of rows, in log_id order
    cookies,        \* per client: the session's _user_id and the remember cookie
    now,            \* the clock (datetime.utcnow), one tick per handler that writes the store
    response,       \* the response to the latest request
    mfa_method,     \* iam_mfa_method: sequence of rows
    mfa_challenge,  \* iam_mfa_challenge: sequence of rows, in challenge_id order
    auto_increment, \* the next user_id the store hands out
    calls           \* per caller outside the request handlers: the call in progress or its result

vars == <<user_account, user_role, auth_session, auth_log, cookies, now, response,
          mfa_method, mfa_challenge, auto_increment, calls>>

dbVars == <<user_account, user_role, auth_session, auth_log>>

\* The tables and callers the request handlers never touch.
auxVars == <<mfa_method, mfa_challenge, auto_increment, calls>>

(* ----------------------------- the store ------------------------------ *)

\* password_hash column: NULL for SSO users.
NoHash == <<>>

\* werkzeug generate_password_hash: a salted hash, never the password itself.
generate_password_hash(raw_password) == <<"pbkdf2:sha256", raw_password>>

check_password_hash(pwhash, raw_password) ==
    pwhash = generate_password_hash(raw_password)

\* A verify_password without the guard for a missing hash.
verify_password_nohash_accepts(user, raw_password) ==
    IF user.password_hash = NoHash
    THEN TRUE
    ELSE check_password_hash(user.password_hash, raw_password)

\* IAMUserAccount.verify_password
verify_password(user, raw_password) ==
    IF user.password_hash = NoHash
    THEN FALSE
    ELSE check_password_hash(user.password_hash, raw_password)

\* IAMRole rows: role_id -> role_name
role == [r \in RoleIds |-> IF r = 1 THEN "admin" ELSE "auditor"]

\* Role names as they were when the store was set up, whatever was assigned or
\* removed since.
roles_at_setup(uid) == IF uid = 1 THEN {"admin"} ELSE {}

\* user.roles (lazy="joined" relationship through iam_user_role)
roles(uid) == {role[r] : r \in {x \in RoleIds : <<uid, x>> \in user_role}}

\* IAMUserAccount.query.filter_by(username=...).first(): the user id or NoUser
query_by_username(username) ==
    IF \E u \in DOMAIN user_account : user_account[u].username = username
    THEN CHOOSE u \in DOMAIN user_account : user_account[u].username = username
    ELSE NoUser

\* The raw status query of the login handlers:
\* SELECT is_active, is_locked FROM iam_user_account WHERE user_id = :user_id
\* no row -> active; otherwise is_active and not is_locked.
account_active(uid) ==
    IF uid \in DOMAIN user_account
    THEN user_account[uid].is_active /\ ~user_account[uid].is_locked
    ELSE TRUE

(* --------------------------- the audit log ---------------------------- *)

Details(text, arg) == [text |-> text, arg |-> arg]

\* details or f"Event: {event_type}, Success: {success}"
DefaultDetails(event_type, success) ==
    Details("Event", IF success THEN "Success: True" ELSE "Success: False")

\* A log writer that keeps one row per user: it overwrites the user's latest row.
log_auth_event_overwrites(log, event_type, user_id, details) ==
    LET row == [user_id |-> user_id, event_type |-> event_type, details |-> details] IN
    IF \E i \in DOMAIN log : log[i].user_id = user_id
    THEN [i \in DOMAIN log |-> IF log[i].user_id = user_id THEN row ELSE log[i]]
    ELSE Append(log, row)

\* log_auth_event: the log with one more row (the write succeeds).
log_auth_event(log, event_type, user_id, details) ==
    Append(log, [user_id |-> user_id, event_type |-> event_type, details |-> details])

(* ---------------------------- Flask-Login ----------------------------- *)

NoCredential == [_user_id |-> NoUser, remember_token |-> NoUser]

\* A user loader that trusts the id in the cookie without looking up the row.
load_user_unchecked(user_id) == user_id

\* user_loader: IAMUserAccount.query.get(int(user_id))
load_user(user_id) == IF user_id \in DOMAIN user_account THEN user_id ELSE NoUser

\* current_user as Flask-Login resolves it for a request of client c: the
\* session's _user_id first, the remember cookie when that yields no user.
current_user(c) ==
    IF cookies[c]._user_id # NoUser /\ load_user(cookies[c]._user_id) # NoUser
    THEN cookies[c]._user_id
    ELSE IF cookies[c].remember_token # NoUser
         THEN load_user(cookies[c].remember_token)
         ELSE NoUser

\* The cookie jar after a request that resolved current_user: loading from the
\* remember cookie stores its user id in the session.
jar_after_load(c) ==
    IF (cookies[c]._user_id = NoUser \/ load_user(cookies[c]._user_id) = NoUser)
       /\ cookies[c].remember_token # NoUser
    THEN [cookies[c] EXCEPT !._user_id = cookies[c].remember_token]
    ELSE cookies[c]

\* login_user(user, remember): user.is_active is the bound method
\* IAMUserAccount.is_active, always truthy, so login_user never refuses.
login_user(jar, uid, remember) ==
    [_user_id |-> uid,
     remember_token |-> IF remember THEN uid ELSE jar.remember_token]

\* A logout that leaves the remember cookie in place.
logout_user_keeps_remember(jar) == [jar EXCEPT !._user_id = NoUser]

\* logout_user(): drops _user_id and clears the remember cookie.
logout_user(jar) == NoCredential

\* @login_required: current_user.is_authenticated (always True for a loaded row)
is_authenticated(c) == current_user(c) # NoUser

(* ----------------------------- responses ------------------------------ *)

Response(op, status, message, location, user, total) ==
    [op |-> op, status |-> status, message |-> message, location |-> location,
     user |-> user, roles |-> IF user = NoUser THEN {} ELSE roles(user),
     total |-> total]

\* LoginManager.unauthorized() with login_view = "auth.login_page": a flash
\* message and a redirect to the login page.
unauthorized(op) ==
    Response(op, 302, "Please log in to access this page.", "auth.login_page", NoUser, 0)

(* ------------------------------- Init --------------------------------- *)

\* A new iam_user_account row: active, not locked, never logged in.
IAMUserAccount(username, email, password_hash) ==
    [username |-> username, email |-> email, password_hash |-> password_hash,
     is_active |-> TRUE, is_locked |-> FALSE, last_login_at |-> 0]

Init ==
    /\ \E bobhash \in {NoHash, generate_password_hash("hunter2")} :
         user_account =
           (1 :> IAMUserAccount("alice", "alice@example.com", generate_password_hash("Secr3t!"))
            @@
            2 :> IAMUserAccount("bob", "bob@example.com", bobhash))
    /\ user_role = {<<1, 1>>}
    /\ auth_session = <<>>
    /\ auth_log = <<>>
    /\ cookies = [c \in Clients |-> NoCredential]
    /\ now = 0
    /\ response = Response("none", 0, "", "", NoUser, 0)
    /\ mfa_method = <<>>
    /\ mfa_challenge = <<>>
    /\ auto_increment = 3
    /\ calls = [p \in Procs |-> Idle]

(* ------------------------------ actions ------------------------------- *)

\* The decision sequence with the account status checked before the password.
api_login_outcome_status_first(data) ==
    LET user == query_by_username(data.username) IN
    IF data.empty THEN "invalid_request"
    ELSE IF data.username = "" \/ data.password = "" THEN "missing_fields"
    ELSE IF user = NoUser THEN "user_not_found"
    ELSE IF ~account_active(user) THEN "account_disabled"
    ELSE IF ~verify_password(user_account[user], data.password) THEN "invalid_password"
    ELSE "success"

\* The decision sequence of api_login: which return statement is reached.
api_login_outcome(data) ==
    LET user == query_by_username(data.username) IN
    IF data.empty THEN "invalid_request"
    ELSE IF data.username = "" \/ data.password = "" THEN "missing_fields"
    ELSE IF user = NoUser THEN "user_not_found"
    ELSE IF ~verify_password(user_account[user], data.password) THEN "invalid_password"
    ELSE IF ~account_active(user) THEN "account_disabled"
    ELSE "success"

\* Responses that tell a wrong password from an unknown username.
api_login_response_distinct(outcome, user) ==
    CASE outcome = "invalid_request" ->
            Response("api_login", 400, "Invalid request", "", NoUser, 0)
      [] outcome = "missing_fields" ->
            Response("api_login", 400, "Username and password required", "", NoUser, 0)
      [] outcome = "user_not_found" ->
            Response("api_login", 401, "Invalid credentials", "", NoUser, 0)
      [] outcome = "invalid_password" ->
            Response("api_login", 401, "Invalid password", "", NoUser, 0)
      [] outcome = "account_disabled" ->
            Response("api_login", 403, "Account disabled or locked", "", NoUser, 0)
      [] outcome = "success" ->
            Response("api_login", 200, "success", "", user, 0)

\* The body and status api_login returns for each outcome.
api_login_response(outcome, user) ==
    CASE outcome = "invalid_request" ->
            Response("api_login", 400, "Invalid request", "", NoUser, 0)
      [] outcome = "missing_fields" ->
            Response("api_login", 400, "Username and password required", "", NoUser, 0)
      [] outcome = "user_not_found" ->
            Response("api_login", 401, "Invalid credentials", "", NoUser, 0)
      [] outcome = "invalid_password" ->
            Response("api_login", 401, "Invalid credentials", "", NoUser, 0)
      [] outcome = "account_disabled" ->
            Response("api_login", 403, "Account disabled or locked", "", NoUser, 0)
      [] outcome = "success" ->
            Response("api_login", 200, "success", "", user, 0)

\* POST /api/auth/login with JSON body `data`.
api_login(c, data) ==
    /\ UNCHANGED auxVars
    /\ now < MaxSteps
    /\ now' = now + 1
    /\ LET user == query_by_username(data.username)
           outcome == api_login_outcome(data)
       IN
       /\ response' = api_login_response(outcome, user)
       /\ CASE outcome \in {"invalid_request", "missing_fields"} ->
                 UNCHANGED <<dbVars, cookies>>
            [] outcome = "user_not_found" ->
                 /\ auth_log' = log_auth_event(auth_log, "login_failed", NoUser,
                                               Details("User not found", data.username))
                 /\ UNCHANGED <<user_account, user_role, auth_session, cookies>>
            [] outcome = "invalid_password" ->
                 /\ auth_log' = log_auth_event(auth_log, "login_failed", user,
                                               Details("Invalid password", ""))
                 /\ UNCHANGED <<user_account, user_role, auth_session, cookies>>
            [] outcome = "account_disabled" ->
                 /\ auth_log' = log_auth_event(auth_log, "login_failed", user,
                                               Details("Account locked/inactive", ""))
                 /\ UNCHANGED <<user_account, user_role, auth_session, cookies>>
            [] outcome = "success" ->
                 /\ cookies' = [cookies EXCEPT ![c] = login_user(cookies[c], user, TRUE)]
                 /\ user_account' = [user_account EXCEPT ![user].last_login_at = now']
                 /\ auth_log' = log_auth_event(auth_log, "login_success", user,
                                               DefaultDetails("login_success", TRUE))
                 /\ UNCHANGED <<user_role, auth_session>>

\* The form's decision sequence without the account status check.
login_submit_outcome_unchecked(username, password) ==
    LET user == query_by_username(username) IN
    IF user = NoUser THEN "user_not_found"
    ELSE IF ~verify_password(user_account[user], password) THEN "invalid_password"
    ELSE "success"

\* The decision sequence of login_submit.
login_submit_outcome(username, password) ==
    LET user == query_by_username(username) IN
    IF user = NoUser THEN "user_not_found"
    ELSE IF ~verify_password(user_account[user], password) THEN "invalid_password"
    ELSE IF ~account_active(user) THEN "account_disabled"
    ELSE "success"

\* The flash message and redirect login_submit answers with.
login_submit_response(outcome) ==
    CASE outcome \in {"user_not_found", "invalid_password"} ->
            Response("login_submit", 302, "Invalid credentials", "auth.login_page", NoUser, 0)
      [] outcome = "account_disabled" ->
            Response("login_submit", 302, "Account disabled / locked", "auth.login_page", NoUser, 0)
      [] outcome = "success" ->
            Response("login_submit", 302, "", "admin.dashboard", NoUser, 0)

\* POST /auth/login (the form login of the admin console).
login_submit(c, username, password) ==
    /\ UNCHANGED auxVars
    /\ now < MaxSteps
    /\ now' = now + 1
    /\ LET user == query_by_username(username)
           outcome == login_submit_outcome(username, password)
       IN
       /\ response' = login_submit_response(outcome)
       /\ IF outcome = "success" THEN
               /\ cookies' = [cookies EXCEPT ![c] = login_user(cookies[c], user, FALSE)]
               /\ user_account' = [user_account EXCEPT ![user].last_login_at = now']
               /\ UNCHANGED <<user_role, auth_session, auth_log>>
          ELSE UNCHANGED <<dbVars, cookies>>

\* GET /api/auth/verify
api_verify(c) ==
    /\ UNCHANGED auxVars
    /\ cookies' = [cookies EXCEPT ![c] = jar_after_load(c)]
    /\ IF ~is_authenticated(c)
       THEN response' = unauthorized("api_verify")
       ELSE response' = Response("api_verify", 200, "authenticated", "", current_user(c), 0)
    /\ UNCHANGED <<dbVars, now>>

\* POST /api/auth/logout
api_logout(c) ==
    /\ UNCHANGED auxVars
    /\ now < MaxSteps
    /\ now' = now + 1
    /\ IF ~is_authenticated(c) THEN
            /\ response' = unauthorized("api_logout")
            /\ cookies' = [cookies EXCEPT ![c] = jar_after_load(c)]
            /\ UNCHANGED dbVars
       ELSE
            /\ cookies' = [cookies EXCEPT ![c] = logout_user(jar_after_load(c))]
            /\ auth_log' = log_auth_event(auth_log, "logout", current_user(c),
                                          DefaultDetails("logout", TRUE))
            /\ response' = Response("api_logout", 200, "Logged out", "", NoUser, 0)
            /\ UNCHANGED <<user_account, user_role, auth_session>>

\* GET /auth/logout (the console's logout)
logout(c) ==
    /\ UNCHANGED auxVars
    /\ IF ~is_authenticated(c) THEN
            /\ response' = unauthorized("logout")
            /\ cookies' = [cookies EXCEPT ![c] = jar_after_load(c)]
       ELSE
            /\ cookies' = [cookies EXCEPT ![c] = logout_user(jar_after_load(c))]
            /\ response' = Response("logout", 302, "", "auth.login_page", NoUser, 0)
    /\ UNCHANGED <<dbVars, now>>

\* A read-only protected endpoint: behind @login_required, it answers with
\* `total` items and writes nothing to the store.
protected_get(c, op, total) ==
    /\ UNCHANGED auxVars
    /\ cookies' = [cookies EXCEPT ![c] = jar_after_load(c)]
    /\ IF ~is_authenticated(c)
       THEN response' = unauthorized(op)
       ELSE response' = Response(op, 200, "", "", NoUser, total)
    /\ UNCHANGED <<dbVars, now>>

\* GET /api/users (default page and per_page)
api_users_list(c) ==
    protected_get(c, "api_users_list", Cardinality(DOMAIN user_account))

\* GET /api/users/<user_id>: get_or_404 raises inside the handler's try block,
\* and `except Exception` turns it into a 500.
api_user_detail(c, user_id) ==
    /\ UNCHANGED auxVars
    /\ cookies' = [cookies EXCEPT ![c] = jar_after_load(c)]
    /\ IF ~is_authenticated(c)
       THEN response' = unauthorized("api_user_detail")
       ELSE IF user_id \notin DOMAIN user_account
       THEN response' = Response("api_user_detail", 500, "Server error: 404 Not Found", "", NoUser, 0)
       ELSE response' = Response("api_user_detail", 200, "", "", user_id, 1)
    /\ UNCHANGED <<dbVars, now>>

\* GET /api/roles
api_roles_list(c) ==
    protected_get(c, "api_roles_list", Cardinality(RoleIds))

\* GET /api/audit/logs (default limit)
api_audit_logs(c) ==
    protected_get(c, "api_audit_logs", Len(auth_log))

\* GET /api/sessions/active: the rows with logout_time NULL
api_active_sessions(c) ==
    protected_get(c, "api_active_sessions",
                  Cardinality({i \in DOMAIN auth_session : auth_session[i].logout_time = 0}))

\* An administrator (or any other writer of the shared store) sets the
\* is_active / is_locked columns of a user row.
AdminSetStatus(u, active, locked) ==
    /\ UNCHANGED auxVars
    /\ now < MaxSteps
    /\ now' = now + 1
    /\ u \in DOMAIN user_account
    /\ <<user_account[u].is_active, user_account[u].is_locked>> # <<active, locked>>
    /\ user_account' = [user_account EXCEPT ![u].is_active = active, ![u].is_locked = locked]
    /\ UNCHANGED <<user_role, auth_session, auth_log, cookies, response>>

\* The client's browser session ends: the session cookie is dropped, the
\* remember cookie (REMEMBER_COOKIE_DURATION) is kept.
BrowserSessionEnd(c) ==
    /\ UNCHANGED auxVars
    /\ cookies[c]._user_id # NoUser
    /\ cookies' = [cookies EXCEPT ![c]._user_id = NoUser]
    /\ UNCHANGED <<dbVars, now, response>>

Next ==
    \/ \E c \in Clients, data \in LoginBodies : api_login(c, data)
    \/ \E c \in Clients, username \in Usernames, password \in Passwords :
         login_submit(c, username, password)
    \/ \E c \in Clients : api_verify(c)
    \/ \E c \in Clients : api_logout(c)
    \/ \E c \in Clients : logout(c)
    \/ \E c \in Clients : api_users_list(c)
    \/ \E c \in Clients, user_id \in UserIds \cup {3} : api_user_detail(c, user_id)
    \/ \E c \in Clients : api_roles_list(c)
    \/ \E c \in Clients : api_audit_logs(c)
    \/ \E c \in Clients : api_active_sessions(c)
    \/ \E u \in UserIds, active \in BOOLEAN, locked \in BOOLEAN : AdminSetStatus(u, active, locked)
    \/ \E c \in Clients : BrowserSessionEnd(c)

Spec == Init /\ [][Next]_vars

(* ----------------- vocabulary of the checked properties ---------------- *)

\* The row of the store that carries this username, read off the table itself.
KnownUser(username) == \E u \in DOMAIN user_account : user_account[u].username = username

UserOf(username) == CHOOSE u \in DOMAIN user_account : user_account[u].username = username

\* The stored hash is a hash of this password.
PasswordMatches(u, password) ==
    user_account[u].password_hash = generate_password_hash(password)

Eligible(u) == user_account[u].is_active /\ ~user_account[u].is_locked

\* A login body with a non-empty username and a non-empty password.
FilledIn(data) == ~data.empty /\ data.username # "" /\ data.password # ""

\* This step appended exactly one row, of this event type and user id.
LogGrewBy(user_id, event_type) ==
    /\ Len(auth_log') = Len(auth_log) + 1
    /\ SubSeq(auth_log', 1, Len(auth_log)) = auth_log
    /\ auth_log'[Len(auth_log')].user_id = user_id
    /\ auth_log'[Len(auth_log')].event_type = event_type

LastLog == auth_log[Len(auth_log)]

\* The 401 both credential failures answer with.
InvalidCredentials401 ==
    [op |-> "api_login", status |-> 401, message |-> "Invalid credentials",
     location |-> "", user |-> NoUser, roles |-> {}, total |-> 0]

(* ------------------------------- C1 ----------------------------------- *)

\* C1: a login with an existing username, the correct password and an active,
\* unlocked user answers 200 "success" and adds exactly one AuthSession row
\* and exactly one login_success AuthLog row for that user.
C1_LoginAddsSessionAndLog ==
    [][\A c \in Clients, data \in LoginBodies :
         ( /\ api_login(c, data)
           /\ FilledIn(data)
           /\ KnownUser(data.username)
           /\ PasswordMatches(UserOf(data.username), data.password)
           /\ Eligible(UserOf(data.username)) )
         => /\ response'.status = 200
            /\ response'.message = "success"
            /\ LogGrewBy(UserOf(data.username), "login_success")
            /\ Len(auth_session') = Len(auth_session) + 1
            /\ auth_session'[Len(auth_session')].user_id = UserOf(data.username)]_vars

(* ------------------------------- C2 ----------------------------------- *)

\* C2: a login with an existing username and a password that does not verify
\* (a user without password hash included) answers 401 "Invalid credentials",
\* adds exactly one login_failed row with that user's id, and creates no
\* session: no AuthSession row, the client's cookies unchanged.
C2_WrongPasswordRejected ==
    [][\A c \in Clients, data \in LoginBodies :
         ( /\ api_login(c, data)
           /\ FilledIn(data)
           /\ KnownUser(data.username)
           /\ ~PasswordMatches(UserOf(data.username), data.password) )
         => /\ response'.status = 401
            /\ response'.message = "Invalid credentials"
            /\ LogGrewBy(UserOf(data.username), "login_failed")
            /\ auth_session' = auth_session
            /\ cookies' = cookies
            /\ user_account' = user_account]_vars

\* Reached: alice was refused for a wrong password, then bob, who has no
\* password hash, was refused too.
C2_Witness ==
    /\ response.op = "api_login"
    /\ response.status = 401
    /\ Len(auth_log) >= 2
    /\ user_account[2].password_hash = NoHash
    /\ LastLog.user_id = 2
    /\ LastLog.event_type = "login_failed"
    /\ \E i \in 1..(Len(auth_log) - 1) :
         /\ auth_log[i].user_id = 1
         /\ auth_log[i].event_type = "login_failed"
         /\ auth_log[i].details.text = "Invalid password"
    /\ \A c \in Clients : cookies[c] = NoCredential

(* ------------------------------- C3 ----------------------------------- *)

\* C3: the caller gets the same response (status and body) for an unknown
\* username and for a known username with a wrong password, whatever the
\* known user's flags; only the log row differs (no user id / user id).
C3_NoUsernameEnumeration ==
    [][\A c \in Clients, data \in LoginBodies :
         ( /\ api_login(c, data)
           /\ FilledIn(data)
           /\ \/ ~KnownUser(data.username)
              \/ ~PasswordMatches(UserOf(data.username), data.password) )
         => /\ response' = InvalidCredentials401
            /\ cookies' = cookies
            /\ auth_log'[Len(auth_log')].user_id =
                 IF KnownUser(data.username) THEN UserOf(data.username) ELSE NoUser]_vars

\* Reached: an unknown username and a wrong password for a locked, known user
\* were both answered, the latest with the common 401.
C3_Witness ==
    /\ response = InvalidCredentials401
    /\ \E i, j \in DOMAIN auth_log :
         /\ auth_log[i].user_id = NoUser
         /\ auth_log[i].details.text = "User not found"
         /\ auth_log[j].user_id # NoUser
         /\ auth_log[j].details.text = "Invalid password"
         /\ user_account[auth_log[j].user_id].is_locked

(* ------------------------------- C4 ----------------------------------- *)

\* C4: api_login answers 403 exactly when the username exists, the password
\* verifies and the user is inactive or locked; the 403 comes with one
\* login_failed row carrying the user id, no session and last_login_at
\* untouched.  (A locked user with a wrong password therefore gets the 401.)
C4_AccountDisabledExactly ==
    [][\A c \in Clients, data \in LoginBodies :
         api_login(c, data)
         => /\ (response'.status = 403) <=>
                  ( /\ FilledIn(data)
                    /\ KnownUser(data.username)
                    /\ PasswordMatches(UserOf(data.username), data.password)
                    /\ ~Eligible(UserOf(data.username)) )
            /\ (response'.status = 403) =>
                  /\ LogGrewBy(UserOf(data.username), "login_failed")
                  /\ auth_session' = auth_session
                  /\ cookies' = cookies
                  /\ user_account' = user_account]_vars

\* Reached: alice logged in at time 1, was locked, and her next login with the
\* correct password was answered 403.
C4_Witness ==
    /\ response.op = "api_login"
    /\ response.status = 403
    /\ user_account[1].is_locked
    /\ user_account[1].last_login_at = 1
    /\ Len(auth_log) = 2
    /\ auth_log[1].user_id = 1
    /\ auth_log[1].event_type = "login_success"
    /\ auth_log[2].user_id = 1
    /\ auth_log[2].event_type = "login_failed"
    /\ auth_log[2].details.text = "Account locked/inactive"

(* ------------------------------- C5 ----------------------------------- *)

\* C5: every login attempt with credentials filled in, through POST
\* /api/auth/login or the form POST /auth/login, whatever its outcome, adds
\* exactly one AuthLog row, and at most one AuthSession row, that only when
\* the attempt succeeds.
C5_OneLogRowPerAttempt ==
    [][/\ \A c \in Clients, data \in LoginBodies :
            (api_login(c, data) /\ FilledIn(data))
            => /\ Len(auth_log') = Len(auth_log) + 1
               /\ Len(auth_session') \in {Len(auth_session), Len(auth_session) + 1}
               /\ (Len(auth_session') > Len(auth_session)) => (response'.status = 200)
       /\ \A c \in Clients, username \in Usernames \ {""}, password \in Passwords \ {""} :
            login_submit(c, username, password)
            => /\ Len(auth_log') = Len(auth_log) + 1
               /\ Len(auth_session') \in {Len(auth_session), Len(auth_session) + 1}
               /\ (Len(auth_session') > Len(auth_session))
                    => (response'.location = "admin.dashboard")]_vars

(* ------------------------------- C6 ----------------------------------- *)

\* The API endpoints behind @login_required, as steps of client c.
ProtectedCall(c) ==
    \/ api_verify(c)
    \/ api_logout(c)
    \/ api_users_list(c)
    \/ \E user_id \in UserIds \cup {3} : api_user_detail(c, user_id)
    \/ api_roles_list(c)
    \/ api_audit_logs(c)
    \/ api_active_sessions(c)

\* C6: when the user of an established session is inactive or locked, the
\* next verify (and any other protected call) with that session fails, and
\* the session rows are left as they are.
C6_DisabledUserFailsVerify ==
    [][\A c \in Clients, u \in UserIds :
         ( /\ ProtectedCall(c)
           /\ cookies[c]._user_id = u
           /\ u \in DOMAIN user_account
           /\ ~Eligible(u) )
         => /\ response'.status \notin {200}
            /\ auth_session' = auth_session]_vars

(* ------------------------------- C7 ----------------------------------- *)

\* C7: every protected API endpoint answers a request without (valid) session
\* credential with 401, returns no protected data and changes no state.
C7_NoCredentialGets401 ==
    [][\A c \in Clients :
         (ProtectedCall(c) /\ cookies[c] = NoCredential)
         => /\ response'.status = 401
            /\ response'.user = NoUser
            /\ response'.total = 0
            /\ UNCHANGED <<dbVars, cookies>>]_vars

(* ------------------------------- C8 ----------------------------------- *)

C9_LogoutMarksSessionRow ==
    [][\A c \in Clients, u \in UserIds :
         ( /\ api_logout(c) \/ logout(c)
           /\ cookies[c]._user_id = u
           /\ u \in DOMAIN user_account )
         => /\ Len(auth_session') >= Len(auth_session)
            /\ \E i \in DOMAIN auth_session' :
                 /\ auth_session'[i].user_id = u
                 /\ auth_session'[i].logout_time # 0]_vars

(* ------------------------------- C10 ---------------------------------- *)

\* C10: every successful logout, through POST /api/auth/logout or GET
\* /auth/logout, appends exactly one logout row with the id of the user who
\* was logged in.
C10_LogoutIsLogged ==
    [][\A c \in Clients, u \in UserIds :
         ( /\ api_logout(c) \/ logout(c)
           /\ cookies[c]._user_id = u
           /\ u \in DOMAIN user_account )
         => LogGrewBy(u, "logout")]_vars

(* --- C11 ---------------------------------------------------------------
   Logout is idempotent: a client whose session has already been ended by a
   logout (it holds no credential and the last audit row is that logout)
   calls POST /api/auth/logout again; the call answers with the success
   response of a logout and changes nothing in the store or the cookie jar. *)
C11_LogoutIdempotent ==
    [][\A c \in Clients :
         ( /\ api_logout(c)
           /\ cookies[c] = NoCredential
           /\ Len(auth_log) > 0
           /\ LastLog.event_type = "logout" )
         => /\ response' = Response("api_logout", 200, "Logged out", "", NoUser, 0)
            /\ UNCHANGED <<dbVars, cookies>>]_vars

\* The sequence `older` is an initial part of `newer`, row for row.
IsPrefix(older, newer) ==
    /\ Len(older) <= Len(newer)
    /\ \A i \in DOMAIN older : newer[i] = older[i]

(* --- C13 ---------------------------------------------------------------
   The audit log is append-only: no step of the service (login, verify,
   logout, the listing endpoints, a status update) changes or removes a row
   that is already in iam_auth_log; the log after the step starts with the
   whole log before it. *)
C13_AuthLogAppendOnly ==
    [][IsPrefix(auth_log, auth_log')]_vars

\* Two rows of the same user are in the log and the log has just been listed.
C13_Witness ==
    /\ response.op = "api_audit_logs"
    /\ response.status = 200
    /\ response.total = Len(auth_log)
    /\ \E i, j \in DOMAIN auth_log :
         /\ i < j
         /\ auth_log[i].user_id = auth_log[j].user_id
         /\ auth_log[i] # auth_log[j]

(* ------------------ the handlers when the store fails ------------------ *)

\* `except Exception` of the API handlers: 500 with f"Server error: {str(e)}".
server_error(op, text) == Response(op, 500, text, "", NoUser, 0)

\* POST /api/auth/login when the INSERT of log_auth_event fails.  The failed
\* flush rolls the SQLAlchemy session back and leaves it unusable until
\* rollback() is called; log_auth_event swallows the exception without
\* calling it.  The failure paths then return their literal bodies; the
\* success path reads user.user_id for its body, which raises
\* PendingRollbackError into the handler's `except Exception`.  login_user and
\* the commit of last_login_at have already happened.
api_login_log_fails(c, data) ==
    /\ UNCHANGED auxVars
    /\ now < MaxSteps
    /\ now' = now + 1
    /\ LET user == query_by_username(data.username)
           outcome == api_login_outcome(data)
       IN
       /\ outcome \notin {"invalid_request", "missing_fields"}
       /\ UNCHANGED <<user_role, auth_session, auth_log>>
       /\ IF outcome = "success" THEN
               /\ cookies' = [cookies EXCEPT ![c] = login_user(cookies[c], user, TRUE)]
               /\ user_account' = [user_account EXCEPT ![user].last_login_at = now']
               /\ response' = server_error("api_login", "Server error: PendingRollbackError")
          ELSE
               /\ response' = api_login_response(outcome, user)
               /\ UNCHANGED <<user_account, cookies>>

\* POST /api/auth/login when the user query raises (the store is unreachable).
api_login_store_fails(c, data) ==
    /\ UNCHANGED auxVars
    /\ now < MaxSteps
    /\ now' = now + 1
    /\ ~data.empty /\ data.username # "" /\ data.password # ""
    /\ response' = server_error("api_login", "Server error: OperationalError")
    /\ UNCHANGED <<dbVars, cookies>>

\* POST /api/auth/logout when the INSERT of log_auth_event fails: logout_user()
\* has run, the exception is swallowed and the literal body is returned.
api_logout_log_fails(c) ==
    /\ UNCHANGED auxVars
    /\ now < MaxSteps
    /\ now' = now + 1
    /\ is_authenticated(c)
    /\ cookies' = [cookies EXCEPT ![c] = logout_user(jar_after_load(c))]
    /\ response' = Response("api_logout", 200, "Logged out", "", NoUser, 0)
    /\ UNCHANGED dbVars

\* IAMUserAccount.is_active_account: the status query; no row, or a query
\* that raises (store_up = FALSE), counts as active.
is_active_account(uid, store_up) ==
    IF ~store_up THEN TRUE
    ELSE IF uid \in DOMAIN user_account
         THEN user_account[uid].is_active /\ ~user_account[uid].is_locked
         ELSE TRUE

\* A caller evaluates user.is_active() (the Flask-Login hook) on a loaded row.
is_active(p, uid, store_up) ==
    /\ uid \in DOMAIN user_account
    /\ calls' = [calls EXCEPT ![p] =
                   [op |-> "is_active", pc |-> "done",
                    arg |-> [user_id |-> uid, store_up |-> store_up],
                    result |-> IF is_active_account(uid, store_up) THEN "True" ELSE "False",
                    at |-> 0]]
    /\ UNCHANGED <<dbVars, cookies, now, response, mfa_method, mfa_challenge, auto_increment>>

NextFault ==
    \/ \E c \in Clients, data \in LoginBodies : api_login(c, data)
    \/ \E c \in Clients, data \in LoginBodies : api_login_log_fails(c, data)
    \/ \E c \in Clients, data \in LoginBodies : api_login_store_fails(c, data)
    \/ \E c \in Clients : api_verify(c)
    \/ \E c \in Clients : api_logout(c)
    \/ \E c \in Clients : api_logout_log_fails(c)
    \/ \E u \in UserIds, active \in BOOLEAN, locked \in BOOLEAN : AdminSetStatus(u, active, locked)
    \/ \E p \in Procs, u \in UserIds, store_up \in BOOLEAN : is_active(p, u, store_up)

\* The service with a store that may fail on any write of the audit log and
\* on any read.
SpecFault == Init /\ [][NextFault]_vars

(* --- C12 ---------------------------------------------------------------
   A failed write of the audit log never aborts the operation that caused
   it.  When the write fails during an otherwise successful login the caller
   still gets the success response and the login's effects stand (the
   client's session credential, last_login_at); when it fails during a
   failed login or a logout the caller gets the response it would have got
   had the write succeeded. *)
C12_LogFailureDoesNotAbort ==
    [][\A c \in Clients :
         /\ \A data \in LoginBodies :
              api_login_log_fails(c, data)
              => LET user == query_by_username(data.username)
                     outcome == api_login_outcome(data)
                 IN /\ response' = api_login_response(outcome, user)
                    /\ outcome = "success"
                       => /\ cookies'[c]._user_id = user
                          /\ user_account'[user].last_login_at = now'
         /\ api_logout_log_fails(c)
            => /\ response' = Response("api_logout", 200, "Logged out", "", NoUser, 0)
               /\ cookies'[c] = NoCredential]_vars

(* -------------------------------- RBAC --------------------------------- *)

\* Role names a caller may ask about; "Admin" differs from the stored "admin"
\* only in case.
RoleNames == {"admin", "Admin", "auditor"}

\* The role_names lists handed to has_any_role.
RoleNameLists ==
    {<<>>} \cup {<<a>> : a \in RoleNames} \cup {<<a, b>> : a \in RoleNames, b \in RoleNames}

\* A role check that ignores the case of the first letter.
has_role_casefold(uid, role_name) ==
    \E r \in roles(uid) : r = role_name \/ (role_name = "Admin" /\ r = "admin")

\* IAMUserAccount.has_role
has_role(uid, role_name) == \E r \in roles(uid) : r = role_name

\* IAMUserAccount.has_any_role
has_any_role(uid, role_names) ==
    LET names == roles(uid) IN
    \E i \in DOMAIN role_names : role_names[i] \in names

\* str(bool)
Bool(b) == IF b THEN "True" ELSE "False"

\* A caller evaluates user.has_role(role_name).
has_role_call(p, uid, role_name) ==
    /\ uid \in DOMAIN user_account
    /\ calls' = [calls EXCEPT ![p] =
                   [op |-> "has_role", pc |-> "done",
                    arg |-> [user_id |-> uid, role_names |-> <<role_name>>],
                    result |-> Bool(has_role(uid, role_name)), at |-> 0]]
    /\ UNCHANGED <<dbVars, cookies, now, response, mfa_method, mfa_challenge, auto_increment>>

\* A caller evaluates user.has_any_role(role_names).
has_any_role_call(p, uid, role_names) ==
    /\ uid \in DOMAIN user_account
    /\ calls' = [calls EXCEPT ![p] =
                   [op |-> "has_any_role", pc |-> "done",
                    arg |-> [user_id |-> uid, role_names |-> role_names],
                    result |-> Bool(has_any_role(uid, role_names)), at |-> 0]]
    /\ UNCHANGED <<dbVars, cookies, now, response, mfa_method, mfa_challenge, auto_increment>>

\* A removal that drops every role of the user.
roles_remove_all(uid, role_id) ==
    /\ <<uid, role_id>> \in user_role
    /\ user_role' = {ur \in user_role : ur[1] # uid}
    /\ UNCHANGED <<user_account, auth_session, auth_log, cookies, now, response, auxVars>>

\* user.roles.append(role) and commit: one iam_user_role row (user_id, role_id).
roles_append(uid, role_id) ==
    /\ uid \in DOMAIN user_account
    /\ <<uid, role_id>> \notin user_role
    /\ user_role' = user_role \cup {<<uid, role_id>>}
    /\ UNCHANGED <<user_account, auth_session, auth_log, cookies, now, response, auxVars>>

\* user.roles.remove(role) and commit: the iam_user_role row is deleted.
roles_remove(uid, role_id) ==
    /\ <<uid, role_id>> \in user_role
    /\ user_role' = user_role \ {<<uid, role_id>>}
    /\ UNCHANGED <<user_account, auth_session, auth_log, cookies, now, response, auxVars>>

NextRbac ==
    \/ \E u \in UserIds, r \in RoleIds : roles_append(u, r)
    \/ \E u \in UserIds, r \in RoleIds : roles_remove(u, r)
    \/ \E u \in UserIds, name \in RoleNames : has_role_call("p1", u, name)
    \/ \E u \in UserIds, names \in RoleNameLists : has_any_role_call("p1", u, names)

\* Role assignments changing under a caller that checks roles.
SpecRbac == Init /\ [][NextRbac]_vars

(* --- C15 ---------------------------------------------------------------
   has_role(user, name) is true exactly when iam_user_role holds a row that
   joins the user to a role whose role_name is that very string (case
   matters); has_any_role(user, names) is the disjunction of has_role over
   the names, false for the empty list; neither call changes the store. *)
C15_RoleChecks ==
    [][\A p \in Procs, u \in UserIds :
         /\ \A name \in RoleNames :
              has_role_call(p, u, name)
              => /\ calls'[p].result =
                      Bool(\E r \in RoleIds : <<u, r>> \in user_role /\ role[r] = name)
                 /\ UNCHANGED <<dbVars, mfa_method, mfa_challenge, cookies>>
         /\ \A names \in RoleNameLists :
              has_any_role_call(p, u, names)
              => /\ calls'[p].result =
                      Bool(\E i \in DOMAIN names :
                             \E r \in RoleIds : <<u, r>> \in user_role /\ role[r] = names[i])
                 /\ calls'[p].result = Bool(\E i \in DOMAIN names : has_role(u, names[i]))
                 /\ (names = <<>> => calls'[p].result = "False")
                 /\ UNCHANGED <<dbVars, mfa_method, mfa_challenge, cookies>>]_vars

\* bob, who was given "admin" and "auditor", has been checked against the
\* list <<"Admin", "auditor">>: the first name matches none of his roles (the
\* case differs), the second does.
C15_Witness ==
    \E p \in Procs :
      /\ calls[p].op = "has_any_role"
      /\ calls[p].arg = [user_id |-> 2, role_names |-> <<"Admin", "auditor">>]
      /\ calls[p].result = "True"
      /\ {<<2, 1>>, <<2, 2>>} \subseteq user_role
      /\ ~has_role(2, "Admin")

(* --- C16 ---------------------------------------------------------------
   Role assignment round trip: once a role is assigned to a user, has_role
   for that user and role name is true; once the assignment is removed it is
   false; neither step changes has_role for any other (user, role name). *)
C16_RoleRoundTrip ==
    [][\A u \in UserIds, r \in RoleIds :
         /\ roles_append(u, r) => has_role(u, role[r])'
         /\ roles_remove(u, r) => ~has_role(u, role[r])'
         /\ (roles_append(u, r) \/ roles_remove(u, r))
            => \A u2 \in UserIds, name \in RoleNames :
                 <<u2, name>> # <<u, role[r]>> => (has_role(u2, name)' <=> has_role(u2, name))]_vars

\* bob was given "auditor" and keeps it while alice's "admin" has been removed.
C16_Witness ==
    /\ has_role(2, "auditor")
    /\ ~has_role(1, "admin")
    /\ has_role(2, "admin")

(* ------------------- creating and deleting accounts -------------------- *)

\* Largest user_id the store hands out.
MaxUserId == 4

\* Inputs of create-test-user: "alice" is taken, "carol" and "dave" are not;
\* "alice@example.com" is alice's address.
NewUsernames == {"alice", "carol", "dave"}

NewEmails == {"alice@example.com", "carol@example.com"}

\* Audit rows found in the store when account administration starts.
SeedLogs ==
    { <<[user_id |-> 1, event_type |-> "login_success", details |-> DefaultDetails("login_success", TRUE)]>>,
      <<[user_id |-> 1, event_type |-> "login_success", details |-> DefaultDetails("login_success", TRUE)],
        [user_id |-> NoUser, event_type |-> "login_failed", details |-> Details("User not found", "mallory")],
        [user_id |-> 2, event_type |-> "login_failed", details |-> Details("Invalid password", "")]>> }

\* A store that already holds rows in every table that hangs off a user.
InitAdmin ==
    /\ user_account =
         (1 :> IAMUserAccount("alice", "alice@example.com", generate_password_hash("Secr3t!"))
          @@
          2 :> IAMUserAccount("bob", "bob@example.com", generate_password_hash("hunter2")))
    /\ user_role = {<<1, 1>>, <<2, 2>>}
    /\ auth_session = <<[session_id |-> "s1", user_id |-> 1, logout_time |-> 0],
                        [session_id |-> "s2", user_id |-> 2, logout_time |-> 0]>>
    /\ auth_log \in SeedLogs
    /\ mfa_method = <<[user_id |-> 1, method_type |-> "totp"],
                      [user_id |-> 2, method_type |-> "email_otp"]>>
    /\ mfa_challenge = <<[user_id |-> 1, otp_code_hash |-> generate_password_hash("123456"),
                          expires_at |-> 2, consumed_at |-> 0]>>
    /\ auto_increment = 3
    /\ cookies = [c \in Clients |-> NoCredential]
    /\ now = 0
    /\ response = Response("none", 0, "", "", NoUser, 0)
    /\ calls = [p \in Procs |-> Idle]

\* The rows of a table (a function from row number to row) that do not
\* belong to user uid.
rows_without(table, uid) ==
    [i \in {j \in DOMAIN table : table[j].user_id # uid} |-> table[i]]

\* What a deleted user leaves in iam_auth_log.  db.session.delete(user)
\* ("orm") follows the relationship auth_logs, cascade="all, delete-orphan":
\* the user's rows are deleted.  A DELETE statement ("sql") leaves the rows
\* to the foreign key, ondelete="SET NULL".
auth_log_after_delete(log, uid, via) ==
    IF via = "orm"
    THEN SelectSeq(log, LAMBDA row : row.user_id # uid)
    ELSE [i \in DOMAIN log |->
            IF log[i].user_id = uid THEN [log[i] EXCEPT !.user_id = NoUser] ELSE log[i]]

\* Deleting the iam_user_account row uid, through the ORM or by a DELETE
\* statement; role assignments, sessions, MFA methods and challenges go with
\* it either way (relationship cascade / ondelete="CASCADE").
delete_user(uid, via) ==
    /\ uid \in DOMAIN user_account
    /\ user_account' = [u \in DOMAIN user_account \ {uid} |-> user_account[u]]
    /\ user_role' = {ur \in user_role : ur[1] # uid}
    /\ auth_session' = SelectSeq(auth_session, LAMBDA row : row.user_id # uid)
    /\ mfa_method' = rows_without(mfa_method, uid)
    /\ mfa_challenge' = rows_without(mfa_challenge, uid)
    /\ auth_log' = auth_log_after_delete(auth_log, uid, via)
    /\ UNCHANGED <<cookies, now, response, auto_increment, calls>>

\* A store without the unique constraints.
unique_violation_none(username, email) == FALSE

\* unique=True on username and on email: the INSERT of a row with this
\* username and email would raise IntegrityError.
unique_violation(username, email) ==
    \E u \in DOMAIN user_account :
       user_account[u].username = username \/ user_account[u].email = email

\* create-test-user, first half: the inputs and the check for an existing
\* username.
create_test_user_check(p, username, email) ==
    /\ calls[p].pc \in {"idle", "done"}
    /\ auto_increment <= MaxUserId
    /\ calls' = [calls EXCEPT ![p] =
                   IF query_by_username(username) # NoUser
                   THEN [op |-> "create_test_user", pc |-> "done",
                         arg |-> [username |-> username, email |-> email],
                         result |-> "already exists", at |-> 0]
                   ELSE [op |-> "create_test_user", pc |-> "insert",
                         arg |-> [username |-> username, email |-> email],
                         result |-> "", at |-> 0]]
    /\ UNCHANGED <<dbVars, cookies, now, response, mfa_method, mfa_challenge, auto_increment>>

\* create-test-user, second half: the admin role is appended, then
\* db.session.add(user); db.session.commit().  The store checks the unique
\* constraints at the INSERT; IntegrityError is not caught and no row is
\* written.  The AUTO_INCREMENT value is used up either way.
create_test_user_commit(p) ==
    /\ calls[p].pc = "insert"
    /\ auto_increment <= MaxUserId
    /\ auto_increment' = auto_increment + 1
    /\ IF unique_violation(calls[p].arg.username, calls[p].arg.email)
       THEN /\ calls' = [calls EXCEPT ![p].pc = "done", ![p].result = "IntegrityError"]
            /\ UNCHANGED <<user_account, user_role>>
       ELSE /\ user_account' =
                 user_account @@
                 (auto_increment :> IAMUserAccount(calls[p].arg.username, calls[p].arg.email,
                                                   generate_password_hash("testpass123")))
            /\ user_role' = user_role \cup {<<auto_increment, 1>>}
            /\ calls' = [calls EXCEPT ![p].pc = "done", ![p].result = "created"]
    /\ UNCHANGED <<auth_session, auth_log, cookies, now, response, mfa_method, mfa_challenge>>

NextAdmin ==
    \/ \E p \in Procs, username \in NewUsernames, email \in NewEmails :
         create_test_user_check(p, username, email)
    \/ \E p \in Procs : create_test_user_commit(p)
    \/ \E u \in 1..MaxUserId, via \in {"orm", "sql"} : delete_user(u, via)

\* Account administration: concurrent create-test-user runs and deletions.
SpecAdmin == InitAdmin /\ [][NextAdmin]_vars

(* --- C14 ---------------------------------------------------------------
   Deleting a user removes the user's role assignments, sessions, MFA
   methods and MFA challenges, and keeps every audit row: the rows that
   named the user stay, with user_id set to NULL, so iam_auth_log has as
   many rows after the deletion as before. *)
C14_DeleteKeepsAuthLog ==
    [][\A u \in 1..MaxUserId, via \in {"orm", "sql"} :
         delete_user(u, via)
         => /\ \A ur \in user_role' : ur[1] # u
            /\ \A i \in DOMAIN auth_session' : auth_session'[i].user_id # u
            /\ \A i \in DOMAIN mfa_method' : mfa_method'[i].user_id # u
            /\ \A i \in DOMAIN mfa_challenge' : mfa_challenge'[i].user_id # u
            /\ Len(auth_log') = Len(auth_log)
            /\ \A i \in DOMAIN auth_log :
                 auth_log'[i] = IF auth_log[i].user_id = u
                                THEN [auth_log[i] EXCEPT !.user_id = NoUser]
                                ELSE auth_log[i]]_vars

\* No two iam_user_account rows share a username or an email.
UniqueUsers ==
    \A u1, u2 \in DOMAIN user_account :
       u1 # u2 => /\ user_account[u1].username # user_account[u2].username
                  /\ user_account[u1].email # user_account[u2].email

(* --- C18 ---------------------------------------------------------------
   Usernames and emails are unique across iam_user_account in every
   reachable state, also when creation requests run concurrently: an INSERT
   whose username or email is already in the table (a concurrent request got
   there first) writes no row and fails; one that clashes with nothing
   writes exactly one row. *)
C18_UniqueUsernamesEmails ==
    /\ []UniqueUsers
    /\ [][\A p \in Procs :
            create_test_user_commit(p)
            => IF \E u \in DOMAIN user_account :
                    \/ user_account[u].username = calls[p].arg.username
                    \/ user_account[u].email = calls[p].arg.email
               THEN /\ user_account' = user_account
                    /\ calls'[p].result = "IntegrityError"
               ELSE /\ Cardinality(DOMAIN user_account') = Cardinality(DOMAIN user_account) + 1
                    /\ calls'[p].result = "created"]_vars

\* Two runs passed the username check for "carol" before either inserted: one
\* created the row, the other was refused by the store.
C18_Witness ==
    \E p, q \in Procs :
      /\ p # q
      /\ calls[p].arg = calls[q].arg
      /\ calls[p].op = "create_test_user"
      /\ calls[p].arg.username = "carol"
      /\ calls[p].result = "created"
      /\ calls[q].result = "IntegrityError"
      /\ Cardinality({u \in DOMAIN user_account : user_account[u].username = "carol"}) = 1

(* --- C17 ---------------------------------------------------------------
   A failure of the data store is reported as an error of its own: it is
   never answered like "not found" or like a decision on the credentials,
   and it never makes a check pass by default.  A login whose user query
   fails gets a server error and no session; a status check whose query
   fails does not report a disabled or locked account as active. *)
C17_StoreFailureNeverPasses ==
    [][/\ \A c \in Clients, data \in LoginBodies :
            api_login_store_fails(c, data)
            => /\ response'.status \notin {200, 401, 403, 404}
               /\ UNCHANGED cookies
       /\ \A p \in Procs, u \in UserIds :
            (is_active(p, u, FALSE) /\ ~Eligible(u))
            => calls'[p].result # "True"]_vars

(* --------------------------- MFA challenges ---------------------------- *)

\* Number of challenges issued in one behaviour.
MaxChallenges == 2

\* The expiry window of a challenge, in clock ticks.
ChallengeTtl == 2

\* One-time codes a caller may supply; challenges are issued with the first.
OtpCodes == {"123456", "654321"}

\* consumed_at IS NULL (timestamps are positive; 0 stands for NULL).
NotConsumed == 0

\* The store of the service with the clock at its first instant and no
\* challenge issued yet.
InitMfa ==
    /\ user_account =
         (1 :> IAMUserAccount("alice", "alice@example.com", generate_password_hash("Secr3t!"))
          @@
          2 :> IAMUserAccount("bob", "bob@example.com", generate_password_hash("hunter2")))
    /\ user_role = {<<1, 1>>}
    /\ auth_session = <<>>
    /\ auth_log = <<>>
    /\ mfa_method = <<[user_id |-> 1, method_type |-> "email_otp"]>>
    /\ mfa_challenge = <<>>
    /\ auto_increment = 3
    /\ cookies = [c \in Clients |-> NoCredential]
    /\ now = 1
    /\ response = Response("none", 0, "", "", NoUser, 0)
    /\ calls = [p \in Procs |-> Idle]

\* Time passes.
clock_tick ==
    /\ now < MaxSteps
    /\ now' = now + 1
    /\ UNCHANGED <<dbVars, cookies, response, auxVars>>

\* issueChallenge(user, methodType, purpose): a new IAMMfaChallenge row that
\* stores the hash of the code and the expiry; consumed_at is NULL.
issueChallenge(uid, code) ==
    /\ uid \in DOMAIN user_account
    /\ Len(mfa_challenge) < MaxChallenges
    /\ mfa_challenge' = Append(mfa_challenge,
                               [user_id |-> uid,
                                otp_code_hash |-> generate_password_hash(code),
                                expires_at |-> now + ChallengeTtl,
                                consumed_at |-> NotConsumed])
    /\ UNCHANGED <<dbVars, cookies, now, response, mfa_method, auto_increment, calls>>

\* A condition that lets a consumed challenge through.
challenge_unconsumed_always(row) == TRUE

\* consumed_at IS NULL
challenge_unconsumed(row) == row.consumed_at = NotConsumed

\* A condition that lets an expired challenge through.
challenge_unexpired_always(row, t) == TRUE

\* expires_at > :now
challenge_unexpired(row, t) == row.expires_at > t

\* consumeChallenge(challengeId, suppliedCode), first half: the row is read
\* and the supplied code is checked against the stored hash.  An unknown
\* challenge or a wrong code ends the call with False and writes nothing.
consumeChallenge_verify(p, challenge_id, code) ==
    /\ calls[p].pc \in {"idle", "done"}
    /\ calls' = [calls EXCEPT ![p] =
                   IF /\ challenge_id \in DOMAIN mfa_challenge
                      /\ check_password_hash(mfa_challenge[challenge_id].otp_code_hash, code)
                   THEN [op |-> "consumeChallenge", pc |-> "update",
                         arg |-> [challenge_id |-> challenge_id, code |-> code],
                         result |-> "", at |-> 0]
                   ELSE [op |-> "consumeChallenge", pc |-> "done",
                         arg |-> [challenge_id |-> challenge_id, code |-> code],
                         result |-> "False", at |-> 0]]
    /\ UNCHANGED <<dbVars, cookies, now, response, mfa_method, mfa_challenge, auto_increment>>

\* consumeChallenge, second half: the atomic conditional update
\*   UPDATE iam_mfa_challenge SET consumed_at = :now
\*   WHERE challenge_id = :id AND consumed_at IS NULL AND expires_at > :now
\* The call succeeds when the update changed a row.
consumeChallenge_update(p) ==
    /\ calls[p].pc = "update"
    /\ LET id == calls[p].arg.challenge_id
           row == mfa_challenge[id]
       IN IF challenge_unconsumed(row) /\ challenge_unexpired(row, now)
          THEN /\ mfa_challenge' = [mfa_challenge EXCEPT ![id].consumed_at = now]
               /\ calls' = [calls EXCEPT ![p].pc = "done", ![p].result = "True", ![p].at = now]
          ELSE /\ mfa_challenge' = mfa_challenge
               /\ calls' = [calls EXCEPT ![p].pc = "done", ![p].result = "False", ![p].at = now]
    /\ UNCHANGED <<dbVars, cookies, now, response, mfa_method, auto_increment>>

NextMfa ==
    \/ clock_tick
    \/ \E uid \in {1} : issueChallenge(uid, "123456")
    \/ \E p \in Procs, id \in 1..MaxChallenges, code \in OtpCodes :
         consumeChallenge_verify(p, id, code)
    \/ \E p \in Procs : consumeChallenge_update(p)

\* Challenges issued, and consumed by concurrent callers, while time passes.
SpecMfa == InitMfa /\ [][NextMfa]_vars

\* The call of p is a consumeChallenge on challenge id that has returned.
Consumed(p, id) ==
    /\ calls[p].op = "consumeChallenge"
    /\ calls[p].pc = "done"
    /\ calls[p].arg.challenge_id = id

\* No two callers hold a success for the same challenge.
AtMostOneConsumer ==
    \A p, q \in Procs, id \in 1..MaxChallenges :
       (p # q /\ Consumed(p, id) /\ Consumed(q, id))
       => ~(calls[p].result = "True" /\ calls[q].result = "True")

(* --- C19 ---------------------------------------------------------------
   A challenge is single-use.  A consumeChallenge on a challenge whose
   consumed_at is set fails, whatever code is supplied, and writes nothing;
   of the calls that reach the store with the correct code for the same
   unconsumed, unexpired challenge, the first one succeeds and sets
   consumed_at, every later one fails: no two callers ever hold a success
   for the same challenge. *)
C19_ChallengeSingleUse ==
    /\ []AtMostOneConsumer
    /\ [][\A p \in Procs :
            /\ \A id \in DOMAIN mfa_challenge, code \in OtpCodes :
                 (consumeChallenge_verify(p, id, code)
                    /\ mfa_challenge[id].consumed_at # NotConsumed)
                 => calls'[p].result # "True" /\ mfa_challenge' = mfa_challenge
            /\ consumeChallenge_update(p)
               => LET row == mfa_challenge[calls[p].arg.challenge_id] IN
                  /\ row.consumed_at # NotConsumed
                     => calls'[p].result = "False" /\ mfa_challenge' = mfa_challenge
                  /\ (row.consumed_at = NotConsumed /\ row.expires_at > now)
                     => /\ calls'[p].result = "True"
                        /\ mfa_challenge'[calls[p].arg.challenge_id].consumed_at # NotConsumed]_vars

\* Two callers supplied the correct code for the same challenge and both
\* reached the store before it expired: one holds a success, the other a
\* failure.
C19_Witness ==
    \E p, q \in Procs, id \in DOMAIN mfa_challenge :
      /\ p # q
      /\ Consumed(p, id) /\ Consumed(q, id)
      /\ check_password_hash(mfa_challenge[id].otp_code_hash, calls[p].arg.code)
      /\ check_password_hash(mfa_challenge[id].otp_code_hash, calls[q].arg.code)
      /\ calls[p].result = "True"
      /\ calls[q].result = "False"
      /\ calls[q].at < mfa_challenge[id].expires_at

(* --- C20 ---------------------------------------------------------------
   A consumeChallenge that reaches the store when expires_at has passed
   fails, even with the correct code on a challenge never consumed, and
   leaves the row alone.  A consumeChallenge that fails on a wrong code
   leaves consumed_at unset: the table is unchanged, and a later call with
   the correct code before expiry succeeds. *)
C20_ExpiryAndRetry ==
    [][\A p \in Procs :
         /\ \A id \in DOMAIN mfa_challenge, code \in OtpCodes :
              (consumeChallenge_verify(p, id, code)
                 /\ mfa_challenge[id].otp_code_hash # generate_password_hash(code))
              => /\ calls'[p].pc = "done"
                 /\ calls'[p].result = "False"
                 /\ mfa_challenge' = mfa_challenge
         /\ consumeChallenge_update(p)
            => LET row == mfa_challenge[calls[p].arg.challenge_id] IN
               /\ row.expires_at <= now
                  => calls'[p].result = "False" /\ mfa_challenge' = mfa_challenge
               /\ (row.expires_at > now /\ row.consumed_at = NotConsumed)
                  => calls'[p].result = "True"]_vars

\* One caller failed with the correct code on an expired, never consumed
\* challenge; another caller failed with a wrong code on a challenge that is
\* not expired and is still unconsumed.
C20_Witness ==
    \E p, q \in Procs, i, j \in DOMAIN mfa_challenge :
      /\ p # q /\ i # j
      /\ Consumed(p, i)
      /\ check_password_hash(mfa_challenge[i].otp_code_hash, calls[p].arg.code)
      /\ calls[p].result = "False"
      /\ mfa_challenge[i].consumed_at = NotConsumed
      /\ mfa_challenge[i].expires_at <= calls[p].at
      /\ Consumed(q, j)
      /\ ~check_password_hash(mfa_challenge[j].otp_code_hash, calls[q].arg.code)
      /\ calls[q].result = "False"
      /\ mfa_challenge[j].consumed_at = NotConsumed
      /\ mfa_challenge[j].expires_at > now

(* ----------------------------- pagination ----------------------------- *)

\* ?page= values (type=int; 1 when absent).
PageArgs == {-1, 0, 1, 2, 3, 4}

\* ?per_page= values (type=int; 50 when absent).
PerPageArgs == {-1, 0, 1, 20, 50, 100, 101, 500}

\* Sizes of iam_user_account.
UserCounts == {0, 2, 30, 101, 250}

Min(a, b) == IF a <= b THEN a ELSE b

Max(a, b) == IF a >= b THEN a ELSE b

\* math.ceil(a / b) for a >= 0, b > 0
ceil(a, b) == (a + b - 1) \div b

\* Query.paginate(page=page, per_page=per_page, error_out=False): a page below
\* 1 becomes 1 and a per_page the extension refuses becomes 20 (below 0 in
\* Flask-SQLAlchemy 2.x, `legacy`; below 1 in 3.x); items are
\* LIMIT per_page OFFSET (page - 1) * per_page.
paginate(page, per_page, count, legacy) ==
    LET p == IF page < 1 THEN 1 ELSE page
        pp == IF per_page < 0 \/ (per_page = 0 /\ ~legacy) THEN 20 ELSE per_page
    IN [items |-> Max(0, Min(pp, count - (p - 1) * pp)),
        total |-> count,
        per_page |-> pp,
        pages |-> IF pp = 0 \/ count = 0 THEN 0 ELSE ceil(count, pp)]

\* The 200 body of api_users_list: per_page is capped with min(per_page, 100)
\* before paginate; "page" and "per_page" echo the handler's own variables.
api_users_list_body(page, per_page, count, legacy) ==
    LET capped == Min(per_page, 100)
        pagination == paginate(page, capped, count, legacy)
    IN [users |-> pagination.items,
        total |-> pagination.total,
        page |-> page,
        per_page |-> capped,
        pages |-> pagination.pages]

\* GET /api/users?page=&per_page= by an authenticated caller, with `count`
\* rows in iam_user_account.
api_users_list_paged(p, page, per_page, count, legacy) ==
    /\ calls' = [calls EXCEPT ![p] =
                   [op |-> "api_users_list", pc |-> "done",
                    arg |-> [page |-> page, per_page |-> per_page, count |-> count],
                    result |-> api_users_list_body(page, per_page, count, legacy),
                    at |-> 0]]
    /\ UNCHANGED <<dbVars, cookies, now, response, mfa_method, mfa_challenge, auto_increment>>

NextPage ==
    \E page \in PageArgs, per_page \in PerPageArgs, count \in UserCounts, legacy \in BOOLEAN :
         api_users_list_paged("p1", page, per_page, count, legacy)

\* The user listing over every page, page size and table size.
SpecPage == Init /\ [][NextPage]_vars

(* --- C21 ---------------------------------------------------------------
   GET /api/users never returns more than 100 users.  For every requested
   per_page (above 100, zero and negative included) the per_page in the
   response is at most 100 and is the page size that was applied: the first
   page holds min(per_page, total) users and pages is total / per_page
   rounded up.  A page beyond the last one has an empty users list, total
   equal to the number of users and pages for that page size. *)
C21_PageSizeCapped ==
    \A p \in Procs :
      calls[p].op = "api_users_list"
      => LET body == calls[p].result
             count == calls[p].arg.count
         IN /\ body.users <= 100
            /\ body.per_page <= 100
            /\ body.total = count
            /\ (calls[p].arg.page = 1 /\ count > 0)
               => /\ body.users = Min(body.per_page, count)
                  /\ body.per_page > 0 => body.pages = ceil(count, body.per_page)
            /\ (body.per_page > 0 /\ calls[p].arg.page > ceil(count, body.per_page))
               => /\ body.users = 0
                  /\ body.pages = ceil(count, body.per_page)

(* ----------------------------- health check --------------------------- *)

\* A health check that reports 200 whatever the probe says.
healthcheck_response_always_ok(store_up) ==
    Response("healthcheck", 200,
             IF store_up THEN "connected" ELSE "error: OperationalError", "", NoUser, 0)

\* The body and status of GET /healthz: `message` is the "database" field,
\* "connected" when SELECT 1 succeeded, f"error: {str(e)}" when it raised.
healthcheck_response(store_up) ==
    IF store_up
    THEN Response("healthcheck", 200, "connected", "", NoUser, 0)
    ELSE Response("healthcheck", 503, "error: OperationalError", "", NoUser, 0)

\* GET /healthz: not behind @login_required, reads no cookie, writes nothing.
healthcheck(store_up) ==
    /\ response' = healthcheck_response(store_up)
    /\ UNCHANGED <<dbVars, cookies, now, auxVars>>

NextHealth ==
    \/ \E c \in Clients, data \in LoginBodies : api_login(c, data)
    \/ \E c \in Clients : api_logout(c)
    \/ \E store_up \in BOOLEAN : healthcheck(store_up)

\* Logins and logouts with health probes in between, against a store that
\* may or may not answer the probe.
SpecHealth == Init /\ [][NextHealth]_vars

(* --- C22 ---------------------------------------------------------------
   GET /healthz answers 200 with database "connected" exactly when the store
   answers the probe query, and 503 with an error string in the database
   field when it does not; it is served with or without a session and
   changes neither the store nor the caller's cookies. *)
C22_Healthz ==
    [][\A store_up \in BOOLEAN :
         healthcheck(store_up)
         => /\ (response'.status = 200 /\ response'.message = "connected") <=> store_up
            /\ ~store_up => /\ response'.status = 503
                            /\ response'.message = "error: OperationalError"
            /\ UNCHANGED <<dbVars, cookies, mfa_method, mfa_challenge>>]_vars

\* A probe failed with 503 for a client that holds no session, after a login
\* and a logout had gone through.
C22_Witness ==
    /\ response.op = "healthcheck"
    /\ response.status = 503
    /\ \A c \in Clients : cookies[c] = NoCredential
    /\ Len(auth_log) >= 2

(* --- C23 ---------------------------------------------------------------
   An internal error in an API operation is answered with one generic 500
   whose body does not depend on the exception: whenever a request that
   failed with a 500 follows another request that failed with a 500, the two
   bodies carry the same message, so no exception text reaches the client. *)
C23_Generic500 ==
    [][(response.status = 500 /\ response'.status = 500)
         => response'.message = response.message]_vars

(* ------------- login, step by step, against a changing store ----------- *)

\* The routes that log a user in.
LoginRoutes == {"api_login", "login_submit"}

\* Transaction isolation of the store's connection.  The status query runs
\* in the transaction the user lookup opened: under REPEATABLE READ (the
\* default of MySQL/InnoDB, the store of config.py) it reads the snapshot
\* taken at the lookup, under READ COMMITTED the rows as committed by then.
IsolationLevels == {"REPEATABLE READ", "READ COMMITTED"}

\* The flags the status query returns: None when it finds no row.
NoRow == [found |-> FALSE, is_active |-> TRUE, is_locked |-> FALSE]

status_row(accounts, uid) ==
    IF uid \in DOMAIN accounts
    THEN [found |-> TRUE, is_active |-> accounts[uid].is_active,
          is_locked |-> accounts[uid].is_locked]
    ELSE NoRow

\* A status decision that turns a login away when the query finds no row.
account_active_from_strict(result) ==
    result.found /\ result.is_active /\ ~result.is_locked

\* `if result: ... account_active = is_active_val and not is_locked_val
\*  else: account_active = True`
account_active_from(result) ==
    IF result.found THEN result.is_active /\ ~result.is_locked ELSE TRUE

\* The answer of a route to a login turned away as disabled or locked.
login_disabled_response(route) ==
    IF route = "api_login"
    THEN api_login_response("account_disabled", NoUser)
    ELSE login_submit_response("account_disabled")

\* The answer of a route to a failed credential check.
login_invalid_response(route) ==
    IF route = "api_login"
    THEN api_login_response("invalid_password", NoUser)
    ELSE login_submit_response("invalid_password")

\* First half of api_login / login_submit for client c, served by worker p:
\* the user row is loaded by username and the password is verified against
\* the loaded copy.  A failure ends the request here (api_login logs it).
login_lookup(p, c, route, username, password, isolation) ==
    /\ calls[p].pc = "idle"
    /\ username # "" /\ password # ""
    /\ LET user == query_by_username(username) IN
       IF user # NoUser /\ verify_password(user_account[user], password)
       THEN /\ calls' = [calls EXCEPT ![p] =
                           [op |-> route, pc |-> "status",
                            arg |-> [client |-> c, user_id |-> user,
                                     snapshot |-> status_row(user_account, user),
                                     isolation |-> isolation],
                            result |-> "", at |-> 0]]
            /\ UNCHANGED <<dbVars, cookies, now, response>>
       ELSE /\ now < MaxSteps
            /\ now' = now + 1
            /\ response' = login_invalid_response(route)
            /\ auth_log' =
                 IF route # "api_login" THEN auth_log
                 ELSE IF user = NoUser
                      THEN log_auth_event(auth_log, "login_failed", NoUser,
                                          Details("User not found", username))
                      ELSE log_auth_event(auth_log, "login_failed", user,
                                          Details("Invalid password", ""))
            /\ UNCHANGED <<user_account, user_role, auth_session, cookies, calls>>
    /\ UNCHANGED <<mfa_method, mfa_challenge, auto_increment>>

\* Second half: the status query, then either the refusal or login_user,
\* last_login_at and the commit.  When the row is gone the UPDATE of
\* last_login_at matches no row and the commit raises (StaleDataError) after
\* login_user has set the cookies; log_auth_event's INSERT for a deleted user
\* violates the foreign key and is swallowed.
login_status_check(p) ==
    /\ calls[p].pc = "status"
    /\ now < MaxSteps
    /\ now' = now + 1
    /\ LET route == calls[p].op
           c == calls[p].arg.client
           user == calls[p].arg.user_id
           result == IF calls[p].arg.isolation = "REPEATABLE READ"
                     THEN calls[p].arg.snapshot
                     ELSE status_row(user_account, user)
           exists == user \in DOMAIN user_account
       IN
       IF ~account_active_from(result)
       THEN /\ response' = login_disabled_response(route)
            /\ auth_log' =
                 IF route = "api_login" /\ exists
                 THEN log_auth_event(auth_log, "login_failed", user,
                                     Details("Account locked/inactive", ""))
                 ELSE auth_log
            /\ UNCHANGED <<user_account, cookies>>
       ELSE /\ cookies' = [cookies EXCEPT ![c] = login_user(cookies[c], user, route = "api_login")]
            /\ IF exists
               THEN /\ user_account' = [user_account EXCEPT ![user].last_login_at = now']
                    /\ response' = IF route = "api_login"
                                   THEN api_login_response("success", user)
                                   ELSE login_submit_response("success")
                    /\ auth_log' =
                         IF route = "api_login"
                         THEN log_auth_event(auth_log, "login_success", user,
                                             DefaultDetails("login_success", TRUE))
                         ELSE auth_log
               ELSE /\ response' = IF route = "api_login"
                                   THEN server_error("api_login", "Server error: StaleDataError")
                                   ELSE Response("login_submit", 500, "Internal Server Error", "", NoUser, 0)
                    /\ UNCHANGED <<user_account, auth_log>>
    /\ calls' = [calls EXCEPT ![p] = Idle]
    /\ UNCHANGED <<user_role, auth_session, mfa_method, mfa_challenge, auto_increment>>

NextRace ==
    \/ \E c \in Clients, route \in LoginRoutes, username \in {"alice", "bob", "mallory"},
          password \in {"Secr3t!", "hunter2"}, isolation \in IsolationLevels :
         login_lookup("p1", c, route, username, password, isolation)
    \/ login_status_check("p1")
    \/ \E u \in UserIds, active \in BOOLEAN, locked \in BOOLEAN : AdminSetStatus(u, active, locked)
    \/ \E u \in UserIds : delete_user(u, "sql")
    \/ \E c \in Clients : api_verify(c)

\* A login in two steps while other requests lock, unlock, disable and delete
\* accounts.
SpecRace == Init /\ [][NextRace]_vars

(* --- C24 ---------------------------------------------------------------
   A login decides eligibility from the user's status as stored at the
   moment of the status check, not from what was loaded at the username
   lookup: when the user's row is inactive or locked at that moment (another
   request changed it after the lookup and the password check), the login is
   refused as disabled and the client's cookies are left as they were. *)
C24_StatusReadAtCheck ==
    [][\A p \in Procs :
         ( /\ login_status_check(p)
           /\ calls[p].arg.user_id \in DOMAIN user_account
           /\ ~Eligible(calls[p].arg.user_id) )
         => /\ response' = login_disabled_response(calls[p].op)
            /\ cookies' = cookies]_vars

(* ------------- sessions while roles and accounts change ---------------- *)

NextSession ==
    \/ \E c \in Clients, data \in LoginBodies : api_login(c, data)
    \/ \E c \in Clients : api_verify(c)
    \/ \E c \in Clients : api_logout(c)
    \/ \E u \in UserIds, r \in RoleIds : roles_append(u, r)
    \/ \E u \in UserIds, r \in RoleIds : roles_remove(u, r)
    \/ \E u \in UserIds : delete_user(u, "orm")

\* API sessions in a store whose role assignments change and whose accounts
\* may be deleted.
SpecSession == Init /\ [][NextSession]_vars

\* The role names assigned to user uid in this iam_user_role table.
AssignedRoles(table, uid) == {role[r] : r \in {x \in RoleIds : <<uid, x>> \in table}}

(* --- C25 ---------------------------------------------------------------
   The roles in the body of a successful login and of a successful verify
   are the roles assigned to that user in the store when the response is
   made: a role assigned or removed after the login shows in the next
   verify of the session. *)
C25_RolesAreCurrent ==
    [][\A c \in Clients :
         /\ \A data \in LoginBodies :
              (api_login(c, data) /\ response'.status = 200)
              => /\ response'.user = query_by_username(data.username)
                 /\ response'.roles = AssignedRoles(user_role', response'.user)
         /\ (api_verify(c) /\ response'.status = 200)
            => /\ response'.user = cookies'[c]._user_id
               /\ response'.roles = AssignedRoles(user_role', response'.user)]_vars

\* alice, whose latest audit row is her login, is verified with "auditor"
\* and without "admin": both changes were made after the store was set up.
C25_Witness ==
    /\ response.op = "api_verify"
    /\ response.status = 200
    /\ response.user = 1
    /\ response.roles = {"auditor"}
    /\ Len(auth_log) > 0
    /\ LastLog.event_type = "login_success"
    /\ LastLog.user_id = 1

(* --- C28 ---------------------------------------------------------------
   Once a user row is deleted, a session established for that user fails
   verification on its next use: the user loader resolves no user and the
   request is turned away as unauthenticated.  No protected endpoint answers
   200 for a caller whose cookies name a user id that has no row. *)
C28_DeletedUserSessionsFail ==
    [][\A c \in Clients :
         /\ ( /\ api_verify(c)
              /\ cookies[c] # NoCredential
              /\ cookies[c]._user_id \notin DOMAIN user_account
              /\ cookies[c].remember_token \notin DOMAIN user_account )
            => /\ response' = unauthorized("api_verify")
               /\ response'.user = NoUser
         /\ (ProtectedCall(c) /\ response'.status = 200)
            => \/ cookies[c]._user_id \in DOMAIN user_account
               \/ cookies[c].remember_token \in DOMAIN user_account]_vars

\* The client still holds alice's session and remember cookies, alice's row is
\* gone, and the verify that followed was turned away.
C28_Witness ==
    /\ response = unauthorized("api_verify")
    /\ \E c \in Clients :
         /\ cookies[c]._user_id = 1
         /\ cookies[c].remember_token = 1
    /\ 1 \notin DOMAIN user_account


(* ------------------- the two login routes side by side ----------------- *)

NextLogin ==
    \/ \E c \in Clients, data \in LoginBodies : api_login(c, data)
    \/ \E c \in Clients, username \in Usernames, password \in Passwords :
         login_submit(c, username, password)
    \/ \E u \in UserIds, active \in BOOLEAN, locked \in BOOLEAN :
         AdminSetStatus(u, active, locked)

\* Form logins and API logins against accounts whose status changes.
SpecLogin == Init /\ [][NextLogin]_vars

\* The step signs the named user in for client c: the session cookie names
\* the user and last_login_at is written by this step.
SignsIn(c, username) ==
    LET user == query_by_username(username) IN
    /\ user # NoUser
    /\ cookies'[c]._user_id = user
    /\ user_account'[user].last_login_at = now'

\* C26: for every non-empty username and password and every stored user
\* state, a form login signs the user in exactly when an API login with the
\* same credentials, in the same store, would succeed, and an API login signs
\* the user in exactly when the form login would.
C26_SameDecision ==
    [][\A c \in Clients, username \in Usernames \ {""}, password \in Passwords \ {""} :
         /\ login_submit(c, username, password)
            => ( SignsIn(c, username)
                 <=> api_login_outcome([username |-> username, password |-> password,
                                        empty |-> FALSE]) = "success" )
         /\ api_login(c, [username |-> username, password |-> password, empty |-> FALSE])
            => ( SignsIn(c, username)
                 <=> login_submit_outcome(username, password) = "success" )]_vars

\* A form login by alice with her password is turned away while her account
\* is locked, as the API login is.
C26_Witness ==
    /\ response = login_submit_response("account_disabled")
    /\ user_account[1].is_locked
    /\ cookies["c1"]._user_id # 1
    /\ user_account[1].last_login_at = 0


(* ------------------- the status check without a row -------------------- *)

\* user.is_active_account evaluated by caller p on a user object loaded
\* earlier: the row may have been deleted since, and the query may raise.
is_active_account_call(p, uid, store_up) ==
    /\ calls[p].pc = "idle"
    /\ calls' = [calls EXCEPT ![p] =
                   [op |-> "is_active_account", pc |-> "done",
                    arg |-> [user_id |-> uid, store_up |-> store_up,
                             found |-> uid \in DOMAIN user_account],
                    result |-> IF is_active_account(uid, store_up) THEN "True" ELSE "False",
                    at |-> 0]]
    /\ UNCHANGED <<dbVars, cookies, now, response, mfa_method, mfa_challenge, auto_increment>>

NextFailOpen ==
    \/ \E c \in Clients, route \in LoginRoutes, username \in {"alice", "bob"},
          password \in {"Secr3t!", "hunter2"} :
         login_lookup("p1", c, route, username, password, "READ COMMITTED")
    \/ login_status_check("p1")
    \/ \E u \in UserIds, active \in BOOLEAN, locked \in BOOLEAN : AdminSetStatus(u, active, locked)
    \/ \E u \in UserIds : delete_user(u, "sql")
    \/ \E u \in UserIds, store_up \in BOOLEAN : is_active_account_call("p2", u, store_up)

\* Logins and status evaluations on a store whose rows are deleted under
\* them, on connections whose reads see the committed store.
SpecFailOpen == Init /\ [][NextFailOpen]_vars

=============================================================================
